---- MODULE Spec2Model ----
(***************************************************************************)
(* Model of paxos-rs (src/src/main.rs): multi-instance Paxos over UDP      *)
(* multicast with proposers (main loop + timer thread), acceptors and      *)
(* learners.  Messages are lists of i32 exactly as on the wire:            *)
(* <<instance, phase, payload...>>.  A multicast group is the set of the   *)
(* datagrams sent to it that can still be delivered: any member may handle *)
(* any of them at any time, any number of times (reordering, duplication)  *)
(* or never (loss).                                                        *)
(***************************************************************************)
EXTENDS Integers, Sequences, FiniteSets, TLC

\* ------------------------------------------------------------ constants
QUORUM == 2

\* ------------------------------------------------------------ configuration
Proposers == {1, 2}
Acceptors == {1, 2, 3}
Learners  == {1, 2}
\* values the clients may submit
Values    == {7, 8}

\* ------------------------------------------------------------ bounds
\* values a proposer accepts from clients (caps instance_counter)
MaxInstance == 2
\* scans of a proposer's timer (caps its round counter)
MaxRound == 1
\* promises a proposer counts per instance (caps q)
MaxQ == 3
\* 2B messages a learner counts per instance entry (caps the quorum count)
MaxCount == 3
\* the caps of instance_counter and q in the deployment with two proposers
TwoMaxInstance == 1
TwoMaxQ == 2
\* the cap of q in the deployment without learners
CoreMaxQ == 4
\* the cap of instance_counter in the deployment with a fair schedule
LiveMaxInstance == 1
\* the cap of the timer's round counter in the deployment with several scans
LongMaxRound == 2
\* the instances reported to a timer that runs alone, and the cap of its channel
TimerMaxInstance == 4
TimerMaxChan == 1

\* A deployment d gives the bounds of a run and its network: with d.lossy the
\* datagrams sent earlier to a group are lost whenever a new one is sent to it.
Pipeline ==
  [instances |-> MaxInstance, rounds |-> MaxRound, q |-> MaxQ,
   count |-> MaxCount, lossy |-> FALSE]
Two == [Pipeline EXCEPT !.instances = TwoMaxInstance, !.q = TwoMaxQ]
Core == [Pipeline EXCEPT !.q = CoreMaxQ]
Alone == [Pipeline EXCEPT !.lossy = TRUE]
Live == [Pipeline EXCEPT !.instances = LiveMaxInstance]
Long == [Pipeline EXCEPT !.rounds = LongMaxRound]

VARIABLES
  p_states,          \* proposer: instance -> [c_rnd, c_val, q, k, k_val]
  instance_counter,  \* proposer: next instance number
  p_alive,           \* proposer process has not panicked
  chan,              \* proposer: mpsc channel main loop -> timer (FIFO)
  t_instances,       \* timer: instances reported as having reached 2A
  t_round,           \* timer: local round counter
  a_states,          \* acceptor: instance -> [rnd, v_rnd, v_val]
  a_alive,           \* acceptor process has not panicked
  l_states,          \* learner: instance -> <<v-rnd, v-val, quorum>>
  itl,               \* learner: instance to learn
  output,            \* learner: lines printed, with the instance of each
  toProposers,       \* datagrams sent to the proposers group
  toAcceptors,       \* datagrams sent to the acceptors group
  toLearners,        \* datagrams sent to the learners group
  submitted,         \* history: values sent by clients
  fresh,             \* history: promises a proposer counted for its current
                     \* round since c-rnd was last set
  last2A,            \* history: the last 2A a proposer sent, with its k, k-val,
                     \* c-val and fresh at the send
  sent2B             \* history: the sender of each datagram of toLearners

vars == <<p_states, instance_counter, p_alive, chan, t_instances, t_round,
          a_states, a_alive, l_states, itl, output,
          toProposers, toAcceptors, toLearners,
          submitted, fresh, last2A, sent2B>>

pvars == <<p_states, instance_counter, p_alive, chan, fresh, last2A>>
tvars == <<t_instances, t_round>>
avars == <<a_states, a_alive, sent2B>>
lvars == <<l_states, itl, output>>

\* inmsg[i] of the source (0-based)
In(inmsg, i) == inmsg[i + 1]

\* HashMap::insert
Insert(map, key, val) ==
  [x \in (DOMAIN map) \cup {key} |-> IF x = key THEN val ELSE map[x]]

\* HashMap::remove
Remove(map, key) == [x \in (DOMAIN map) \ {key} |-> map[x]]

EmptyMap == [x \in {} |-> 0]

Max(S) == CHOOSE x \in S : \A y \in S : y <= x

\* send_to: the datagrams of a group after msgs are sent to it
SendTo(group, msgs, d) ==
  IF d.lossy /\ msgs # {} THEN msgs ELSE group \cup msgs

\* ------------------------------------------------------------ client
\* client: sends [-1, 0, v] to the proposers group
ClientSubmit(v, d) ==
  /\ toProposers' = SendTo(toProposers, {<<-1, 0, v>>}, d)
  /\ submitted' = submitted \cup {v}
  /\ UNCHANGED <<pvars, tvars, avars, lvars, toAcceptors, toLearners>>

\* ------------------------------------------------------------ proposer
\* state of a new instance
InitState(value) ==
  [c_rnd |-> 0, c_val |-> value, q |-> 0, k |-> -1, k_val |-> -1]

\* phase 0: a client value gets the next instance number and a 1A of round 0
ProposerSubmit(p, inmsg, d) ==
  /\ p_alive[p]
  /\ In(inmsg, 1) = 0
  /\ instance_counter[p] < d.instances
  /\ p_states' = [p_states EXCEPT
                    ![p] = Insert(@, instance_counter[p], InitState(In(inmsg, 2)))]
  /\ fresh' = [fresh EXCEPT ![p] = Insert(@, instance_counter[p], 0)]
  /\ toAcceptors' = SendTo(toAcceptors, {<<instance_counter[p], 1, 0>>}, d)
  /\ instance_counter' = [instance_counter EXCEPT ![p] = @ + 1]
  /\ UNCHANGED <<p_alive, chan, last2A, tvars, avars, lvars,
                 toProposers, toLearners, submitted>>

\* the promise is counted when the proposer's round is at least the promise's
PromiseCounts(state, inmsg) == state.c_rnd >= In(inmsg, 2)

\* phase 1, promise counted: the new state, and the value of a 2A sent now
CountPromise(state, inmsg) ==
  LET s1 == [state EXCEPT !.q = @ + 1]
      higher == In(inmsg, 3) > s1.k
      s2 == IF higher
              THEN [s1 EXCEPT !.k = In(inmsg, 3), !.k_val = In(inmsg, 4)]
              ELSE s1
  IN [state |-> s2,
      value |-> IF higher THEN s2.k_val ELSE state.c_val]

\* the 2A goes out once q has reached the quorum
QuorumMet(state) == state.q >= QUORUM

\* phase 1 on an instance with state: the new state and, when the quorum is
\* met, the 2A sent
Handle1B(state, inmsg) ==
  IF PromiseCounts(state, inmsg)
    THEN LET r == CountPromise(state, inmsg)
         IN [state |-> r.state,
             send |-> QuorumMet(r.state),
             payload |-> <<In(inmsg, 0), 2, r.state.c_rnd, r.value>>]
    ELSE [state |-> state, send |-> FALSE, payload |-> <<>>]

\* the 1B is one the proposer can handle now (q is capped at d.q)
Can1B(p, inmsg, d) ==
  /\ p_alive[p]
  /\ In(inmsg, 1) = 1
  /\ In(inmsg, 0) \in DOMAIN p_states[p]
  /\ PromiseCounts(p_states[p][In(inmsg, 0)], inmsg)
       => p_states[p][In(inmsg, 0)].q < d.q

\* history: the promises counted for the current round after this 1B
FreshAfter(p, inmsg) ==
  LET instance == In(inmsg, 0)
      state == p_states[p][instance]
  IN IF PromiseCounts(state, inmsg) /\ In(inmsg, 2) = state.c_rnd
       THEN fresh[p][instance] + 1
       ELSE fresh[p][instance]

\* phase 1: a 1B from an acceptor
Proposer1B(p, inmsg, d) ==
  /\ Can1B(p, inmsg, d)
  /\ LET instance == In(inmsg, 0)
         h == Handle1B(p_states[p][instance], inmsg)
     IN /\ p_states' = [p_states EXCEPT ![p][instance] = h.state]
        /\ fresh' = [fresh EXCEPT ![p][instance] = FreshAfter(p, inmsg)]
        /\ IF h.send
             THEN /\ toAcceptors' = SendTo(toAcceptors, {h.payload}, d)
                  /\ chan' = [chan EXCEPT ![p] = Append(@, instance)]
                  /\ last2A' = [last2A EXCEPT ![p] =
                        [payload |-> h.payload, k |-> h.state.k,
                         k_val |-> h.state.k_val, c_val |-> h.state.c_val,
                         fresh |-> FreshAfter(p, inmsg)]]
             ELSE UNCHANGED <<toAcceptors, chan, last2A>>
  /\ UNCHANGED <<instance_counter, p_alive, tvars, avars, lvars,
                 toProposers, toLearners, submitted>>

\* phase 3: restart of an instance with the round of the message
ProposerRestart(p, inmsg, d) ==
  /\ p_alive[p]
  /\ In(inmsg, 1) = 3
  /\ In(inmsg, 0) \in DOMAIN p_states[p]
  /\ p_states' = [p_states EXCEPT ![p][In(inmsg, 0)].c_rnd = In(inmsg, 2)]
  /\ fresh' = [fresh EXCEPT ![p][In(inmsg, 0)] = 0]
  /\ toAcceptors' = SendTo(toAcceptors, {<<In(inmsg, 0), 1, In(inmsg, 2)>>}, d)
  /\ UNCHANGED <<instance_counter, p_alive, chan, last2A, tvars, avars, lvars,
                 toProposers, toLearners, submitted>>

\* phase 1 or 3 for an instance without state: panic, the process ends
ProposerPanic(p, inmsg) ==
  /\ p_alive[p]
  /\ In(inmsg, 1) \in {1, 3}
  /\ In(inmsg, 0) \notin DOMAIN p_states[p]
  /\ p_alive' = [p_alive EXCEPT ![p] = FALSE]
  /\ UNCHANGED <<p_states, instance_counter, chan, fresh, last2A, tvars, avars,
                 lvars, toProposers, toAcceptors, toLearners, submitted>>

\* ------------------------------------------------------------ proposer timer
\* try_recv = Ok(instance): remember the instance as having reached 2A
TimerRecv(p) ==
  /\ p_alive[p]
  /\ chan[p] # <<>>
  /\ t_instances' = [t_instances EXCEPT ![p] = @ \cup {Head(chan[p])}]
  /\ chan' = [chan EXCEPT ![p] = Tail(@)]
  /\ UNCHANGED <<p_states, instance_counter, p_alive, fresh, last2A, t_round,
                 avars, lvars, toProposers, toAcceptors, toLearners, submitted>>

\* instances.sort(): the reported instances in increasing order
RECURSIVE Sorted(_)
Sorted(instances) ==
  IF instances = {} THEN <<>>
  ELSE LET least == CHOOSE x \in instances : \A y \in instances : x <= y
       IN <<least>> \o Sorted(instances \ {least})

\* a scan that does not move prev: with it the instances below a reported one
\* are restarted whether reported or not
RECURSIVE ScanKeepingPrev(_, _)
ScanKeepingPrev(sorted, prev) ==
  IF sorted = <<>> THEN {}
  ELSE LET ins == Head(sorted)
       IN (IF ins # prev + 1 THEN (prev + 1)..(ins - 1) ELSE {})
            \cup ScanKeepingPrev(Tail(sorted), prev)

\* the loop over the sorted instances: when ins is not prev + 1, the instances
\* prev + 1 .. ins - 1 are restarted; then prev = ins
RECURSIVE ScanLoop(_, _)
ScanLoop(sorted, prev) ==
  IF sorted = <<>> THEN {}
  ELSE LET ins == Head(sorted)
       IN (IF ins # prev + 1 THEN (prev + 1)..(ins - 1) ELSE {})
            \cup ScanLoop(Tail(sorted), ins)

\* the instances a scan restarts
Holes(instances) == ScanLoop(Sorted(instances), -1)

\* try_recv = Err: bump the round, restart the holes, sleep
TimerScan(p, d) ==
  /\ p_alive[p]
  /\ chan[p] = <<>>
  /\ t_round[p] < d.rounds
  /\ t_round' = [t_round EXCEPT ![p] = @ + 1]
  /\ toProposers' = SendTo(toProposers,
        {<<to_restart, 3, t_round[p] + 1>> : to_restart \in Holes(t_instances[p])},
        d)
  /\ UNCHANGED <<p_states, instance_counter, p_alive, chan, fresh, last2A,
                 t_instances, avars, lvars, toAcceptors, toLearners, submitted>>

\* ------------------------------------------------------------ acceptor
\* state of an instance seen for the first time
init_state == [rnd |-> -1, v_rnd |-> -1, v_val |-> -1]

\* an acceptor that honours a 1A or a 2A of any round: with it a promise can
\* be lowered
RoundAny(state, inmsg) == TRUE

\* an acceptor that compares the round of a 1A or a 2A with the round it last
\* accepted in: with it a promise is not kept
RoundAboveAccepted(state, inmsg) == In(inmsg, 2) >= state.v_rnd

\* a 1A or a 2A is honoured when its round is at least the promised one
RoundOk(state, inmsg) == In(inmsg, 2) >= state.rnd

\* the state after a 1A that is honoured
Promise(state, inmsg) == [state EXCEPT !.rnd = In(inmsg, 2)]

\* the state after a 2A that is honoured
Accept(state, inmsg) ==
  [state EXCEPT !.v_rnd = In(inmsg, 2), !.v_val = In(inmsg, 3)]

\* phase 1: a 1A from a proposer
Acceptor1A(a, inmsg, d) ==
  /\ a_alive[a]
  /\ In(inmsg, 1) = 1
  /\ LET instance == In(inmsg, 0)
         state == IF instance \in DOMAIN a_states[a]
                    THEN a_states[a][instance] ELSE init_state
     IN IF RoundOk(state, inmsg)
          THEN LET s1 == Promise(state, inmsg)
               IN /\ a_states' = [a_states EXCEPT ![a] = Insert(@, instance, s1)]
                  /\ toProposers' = SendTo(toProposers,
                        {<<instance, 1, s1.rnd, s1.v_rnd, s1.v_val>>}, d)
          ELSE /\ a_states' = [a_states EXCEPT ![a] = Insert(@, instance, state)]
               /\ UNCHANGED toProposers
  /\ UNCHANGED <<a_alive, sent2B, pvars, tvars, lvars,
                 toAcceptors, toLearners, submitted>>

\* an acceptor that takes a 2A for an instance without state as one for a new
\* instance: with it a value is accepted without a prepare
Acceptor2ALazy(a, inmsg, d) ==
  /\ a_alive[a] /\ In(inmsg, 1) = 2
  /\ LET instance == In(inmsg, 0)
         state == IF instance \in DOMAIN a_states[a]
                    THEN a_states[a][instance] ELSE init_state
     IN IF RoundOk(state, inmsg)
          THEN LET s1 == Accept(state, inmsg)
                   payload == <<instance, 2, s1.v_rnd, s1.v_val>>
               IN /\ a_states' = [a_states EXCEPT ![a] = Insert(@, instance, s1)]
                  /\ toLearners' = SendTo(toLearners, {payload}, d)
                  /\ sent2B' = SendTo(sent2B, {<<a, payload>>}, d)
          ELSE UNCHANGED <<a_states, toLearners, sent2B>>
  /\ UNCHANGED <<a_alive, pvars, tvars, lvars, toProposers, toAcceptors,
                 submitted>>

\* phase 2: a 2A from a proposer, for an instance with state
Acceptor2A(a, inmsg, d) ==
  /\ a_alive[a]
  /\ In(inmsg, 1) = 2
  /\ In(inmsg, 0) \in DOMAIN a_states[a]
  /\ LET instance == In(inmsg, 0)
         state == a_states[a][instance]
     IN IF RoundOk(state, inmsg)
          THEN LET s1 == Accept(state, inmsg)
                   payload == <<instance, 2, s1.v_rnd, s1.v_val>>
               IN /\ a_states' = [a_states EXCEPT ![a][instance] = s1]
                  /\ toLearners' = SendTo(toLearners, {payload}, d)
                  /\ sent2B' = SendTo(sent2B, {<<a, payload>>}, d)
          ELSE UNCHANGED <<a_states, toLearners, sent2B>>
  /\ UNCHANGED <<a_alive, pvars, tvars, lvars,
                 toProposers, toAcceptors, submitted>>

\* phase 2 for an instance without state: panic, the process ends
AcceptorPanic(a, inmsg) ==
  /\ a_alive[a]
  /\ In(inmsg, 1) = 2
  /\ In(inmsg, 0) \notin DOMAIN a_states[a]
  /\ a_alive' = [a_alive EXCEPT ![a] = FALSE]
  /\ UNCHANGED <<a_states, sent2B, pvars, tvars, lvars,
                 toProposers, toAcceptors, toLearners, submitted>>

\* ------------------------------------------------------------ learner
\* the entry of the instance after a 2B, and the quorum q read from it
UpdateEntry(states, inmsg) ==
  LET instance == In(inmsg, 0)
  IN IF instance \in DOMAIN states
       THEN LET t == states[instance]
            IN IF In(inmsg, 2) = t[1]
                 THEN [states |-> [states EXCEPT ![instance] = <<t[1], t[2], t[3] + 1>>],
                       q |-> t[3] + 1]
               ELSE IF In(inmsg, 2) > t[1]
                 THEN [states |-> [states EXCEPT
                                     ![instance] = <<In(inmsg, 2), In(inmsg, 2), 1>>],
                       q |-> 1]
               ELSE [states |-> states, q |-> t[3]]
       ELSE [states |-> Insert(states, instance,
                               <<In(inmsg, 2), In(inmsg, 3), 1>>),
             q |-> 1]

\* q for the next pass of the emit loop, read from the entry of the new itl
NextQ(states, i) == IF i \in DOMAIN states THEN states[i][2] ELSE 0

\* the emit loop: while q >= QUORUM print the value of itl and move on
RECURSIVE EmitLoop(_, _, _, _)
EmitLoop(states, i, q, out) ==
  IF q >= QUORUM
    THEN LET val == states[i][2]
             s1 == Remove(states, i)
         IN EmitLoop(s1, i + 1, NextQ(s1, i + 1),
                     Append(out, [instance |-> i, val |-> val]))
    ELSE [states |-> states, itl |-> i, out |-> out]

\* a learner that emits the instance of the 2B as soon as its count is a
\* quorum, whatever the instance to learn: with it lines come out of order
LearnOutOfOrder(states, i, out, inmsg) ==
  LET u == UpdateEntry(states, inmsg)
      instance == In(inmsg, 0)
  IN IF u.q >= QUORUM
       THEN [states |-> Remove(u.states, instance), itl |-> i + 1,
             out |-> Append(out, [instance |-> instance,
                                  val |-> u.states[instance][2]])]
       ELSE [states |-> u.states, itl |-> i, out |-> out]

\* the learner after a 2B for an instance not yet learned
Learn(states, i, out, inmsg) ==
  LET u == UpdateEntry(states, inmsg)
  IN IF In(inmsg, 0) = i
       THEN EmitLoop(u.states, i, u.q, out)
       ELSE [states |-> u.states, itl |-> i, out |-> out]

\* phase 2: a 2B from an acceptor
Learner2B(l, inmsg, d) ==
  /\ In(inmsg, 1) = 2
  /\ LET instance == In(inmsg, 0)
     IN IF instance < itl[l]
          THEN UNCHANGED lvars
          ELSE /\ instance \in DOMAIN l_states[l]
                    => l_states[l][instance][3] < d.count
               /\ LET r == Learn(l_states[l], itl[l], output[l], inmsg)
                  IN /\ l_states' = [l_states EXCEPT ![l] = r.states]
                     /\ itl' = [itl EXCEPT ![l] = r.itl]
                     /\ output' = [output EXCEPT ![l] = r.out]
  /\ UNCHANGED <<pvars, tvars, avars, toProposers, toAcceptors, toLearners,
                 submitted>>

\* ------------------------------------------------------------ system
Init ==
  /\ p_states = [p \in Proposers |-> EmptyMap]
  /\ instance_counter = [p \in Proposers |-> 0]
  /\ p_alive = [p \in Proposers |-> TRUE]
  /\ chan = [p \in Proposers |-> <<>>]
  /\ t_instances = [p \in Proposers |-> {}]
  /\ t_round = [p \in Proposers |-> 0]
  /\ a_states = [a \in Acceptors |-> EmptyMap]
  /\ a_alive = [a \in Acceptors |-> TRUE]
  /\ l_states = [l \in Learners |-> EmptyMap]
  /\ itl = [l \in Learners |-> 0]
  /\ output = [l \in Learners |-> <<>>]
  /\ toProposers = {}
  /\ toAcceptors = {}
  /\ toLearners = {}
  /\ submitted = {}
  /\ fresh = [p \in Proposers |-> EmptyMap]
  /\ last2A = [p \in Proposers |-> <<>>]
  /\ sent2B = {}

\* Every process that is up handles any datagram of its group, in any order,
\* any number of times.  A process that is down receives nothing: a deployment
\* runs a subset of the configured processes.

\* proposer 1 (with its timer), acceptor 1 and learner 1 are up; the client
\* submits 7.  With one proposer and one acceptor no datagram names an
\* instance its receiver has no state for, so no process panics.
Next ==
  \/ ClientSubmit(7, Pipeline)
  \/ \E inmsg \in toProposers : ProposerSubmit(1, inmsg, Pipeline)
  \/ \E inmsg \in toProposers : Proposer1B(1, inmsg, Pipeline)
  \/ \E inmsg \in toProposers : ProposerRestart(1, inmsg, Pipeline)
  \/ TimerRecv(1)
  \/ TimerScan(1, Pipeline)
  \/ \E inmsg \in toAcceptors : Acceptor1A(1, inmsg, Pipeline)
  \/ \E inmsg \in toAcceptors : Acceptor2A(1, inmsg, Pipeline)
  \/ \E inmsg \in toLearners : Learner2B(1, inmsg, Pipeline)

Spec == Init /\ [][Next]_vars

\* both proposers, acceptors 1 and 2 (a quorum) and both learners are up;
\* every proposer takes one client value, so no instance is ever missing below
\* another one and no timer sends a restart
NextTwo ==
  \/ \E v \in Values : ClientSubmit(v, Two)
  \/ \E p \in Proposers, inmsg \in toProposers : ProposerSubmit(p, inmsg, Two)
  \/ \E p \in Proposers, inmsg \in toProposers : Proposer1B(p, inmsg, Two)
  \/ \E p \in Proposers, inmsg \in toProposers : ProposerPanic(p, inmsg)
  \/ \E p \in Proposers : TimerRecv(p)
  \/ \E p \in Proposers : TimerScan(p, Two)
  \/ \E a \in {1, 2}, inmsg \in toAcceptors : Acceptor1A(a, inmsg, Two)
  \/ \E a \in {1, 2}, inmsg \in toAcceptors : Acceptor2A(a, inmsg, Two)
  \/ \E a \in {1, 2}, inmsg \in toAcceptors : AcceptorPanic(a, inmsg)
  \/ \E l \in Learners, inmsg \in toLearners : Learner2B(l, inmsg, Two)

SpecTwo == Init /\ [][NextTwo]_vars

\* proposer 1 (with its timer) and acceptor 1 are up, no learner
NextCore ==
  \/ ClientSubmit(7, Core)
  \/ \E inmsg \in toProposers : ProposerSubmit(1, inmsg, Core)
  \/ \E inmsg \in toProposers : Proposer1B(1, inmsg, Core)
  \/ \E inmsg \in toProposers : ProposerRestart(1, inmsg, Core)
  \/ TimerRecv(1)
  \/ TimerScan(1, Core)
  \/ \E inmsg \in toAcceptors : Acceptor1A(1, inmsg, Core)
  \/ \E inmsg \in toAcceptors : Acceptor2A(1, inmsg, Core)

SpecCore == Init /\ [][NextCore]_vars

\* proposer 1 (with its timer) and acceptor 1 are up, no learner; the timer
\* scans several times
NextLong ==
  \/ ClientSubmit(7, Long)
  \/ \E inmsg \in toProposers : ProposerSubmit(1, inmsg, Long)
  \/ \E inmsg \in toProposers : Proposer1B(1, inmsg, Long)
  \/ \E inmsg \in toProposers : ProposerRestart(1, inmsg, Long)
  \/ TimerRecv(1)
  \/ TimerScan(1, Long)
  \/ \E inmsg \in toAcceptors : Acceptor1A(1, inmsg, Long)
  \/ \E inmsg \in toAcceptors : Acceptor2A(1, inmsg, Long)

SpecLong == Init /\ [][NextLong]_vars

\* ------------------------------------------------------------ one role alone
\* datagrams the proposers can send: any instance, any round, any value
Env1A == {<<i, 1, r>> : i \in 0..(MaxInstance - 1), r \in 0..MaxRound}
Env2A == {<<i, 2, r, v>> : i \in 0..(MaxInstance - 1), r \in 0..MaxRound,
                           v \in Values}
\* datagrams the acceptors can send to the learners
Env2B == Env2A

\* acceptor 1 handling any sequence of 1A and 2A datagrams
NextAcceptor ==
  \/ \E inmsg \in Env1A : Acceptor1A(1, inmsg, Alone)
  \/ \E inmsg \in Env2A : Acceptor2A(1, inmsg, Alone)
  \/ \E inmsg \in Env2A : AcceptorPanic(1, inmsg)

SpecAcceptor == Init /\ [][NextAcceptor]_vars

\* learner 1 handling any sequence of 2B datagrams
\* the main loop of a proposer reports an instance as having reached 2A
Report(p, instance) ==
  /\ p_alive[p]
  /\ Len(chan[p]) < TimerMaxChan
  /\ chan' = [chan EXCEPT ![p] = Append(@, instance)]
  /\ UNCHANGED <<p_states, instance_counter, p_alive, fresh, last2A, tvars,
                 avars, lvars, toProposers, toAcceptors, toLearners, submitted>>

\* the timer of proposer 1 alone, with any instance reported in any order
NextTimer ==
  \/ \E instance \in 0..(TimerMaxInstance - 1) : Report(1, instance)
  \/ TimerRecv(1)
  \/ TimerScan(1, Long)

SpecTimer == Init /\ [][NextTimer]_vars

NextLearner == \E inmsg \in Env2B : Learner2B(1, inmsg, Alone)

SpecLearner == Init /\ [][NextLearner]_vars

\* ------------------------------------------------------------ fair schedule
\* The network loses the 1A of round 0 of instance 0.  The proposer sends this
\* datagram once, so it is lost at most once and losses stop.
Lose1A ==
  /\ <<0, 1, 0>> \in toAcceptors
  /\ toAcceptors' = toAcceptors \ {<<0, 1, 0>>}
  /\ UNCHANGED <<pvars, tvars, avars, lvars, toProposers, toLearners, submitted>>

\* proposer 1 and its timer, every acceptor, learner 1; one instance.  With a
\* single instance the timer's set of completed instances is within {0}, so
\* it has no hole and the proposer gets no restart datagram to handle.
NextLive ==
  \/ \E v \in Values : ClientSubmit(v, Live)
  \/ Lose1A
  \/ \E inmsg \in toProposers : ProposerSubmit(1, inmsg, Live)
  \/ \E inmsg \in toProposers : Proposer1B(1, inmsg, Live)
  \/ TimerRecv(1)
  \/ TimerScan(1, Live)
  \/ \E a \in Acceptors : \E inmsg \in toAcceptors : Acceptor1A(a, inmsg, Live)
  \/ \E a \in Acceptors : \E inmsg \in toAcceptors : Acceptor2A(a, inmsg, Live)
  \/ \E inmsg \in toLearners : Learner2B(1, inmsg, Live)

\* Every process keeps running: the blocking receive loop of a role handles a
\* datagram that is there for it, and the timer thread loops for ever.
Fairness ==
  /\ WF_vars(\E inmsg \in toProposers : ProposerSubmit(1, inmsg, Live))
  /\ WF_vars(\E inmsg \in toProposers : Proposer1B(1, inmsg, Live))
  /\ WF_vars(TimerRecv(1))
  /\ WF_vars(TimerScan(1, Live))
  /\ \A a \in Acceptors :
       /\ WF_vars(\E inmsg \in toAcceptors : Acceptor1A(a, inmsg, Live))
       /\ WF_vars(\E inmsg \in toAcceptors : Acceptor2A(a, inmsg, Live))
  /\ WF_vars(\E inmsg \in toLearners : Learner2B(1, inmsg, Live))

SpecLive == Init /\ [][NextLive]_vars /\ Fairness

\* ------------------------------------------------------------ properties
\* the lines a learner has printed for an instance
Emitted(l, i) == {output[l][n].val : n \in {m \in DOMAIN output[l] : output[l][m].instance = i}}

\* the acceptors that sent the 2B <<i, 2, r, v>>
Senders2B(i, r, v) == {a \in Acceptors : <<a, <<i, 2, r, v>>>> \in sent2B}

\* C1: agreement: for every instance at most one value is ever emitted,
\* across all learners
Agreement ==
  \A l1 \in Learners, l2 \in Learners :
    \A i \in 0..(MaxInstance - 1) : Cardinality(Emitted(l1, i) \cup Emitted(l2, i)) <= 1

\* C2: a learner emits in instance order without gaps: its k-th line is for
\* instance k - 1, and its instance to learn is the number of lines emitted
InOrder ==
  \A l \in Learners :
    /\ itl[l] = Len(output[l])
    /\ \A n \in DOMAIN output[l] : output[l][n].instance = n - 1

\* C2 case: a learner has emitted instance 0 and then instance 1
InOrderSeen == \E l \in Learners : Len(output[l]) >= 2

\* C3: a value is emitted for an instance only when QUORUM distinct acceptors
\* sent a 2B for that instance with that value in one round
QuorumOfDistinctAcceptors ==
  \A l \in Learners : \A n \in DOMAIN output[l] :
    \E r \in 0..MaxRound :
      Cardinality(Senders2B(output[l][n].instance, r, output[l][n].val)) >= QUORUM

\* C4: every emitted value was submitted by a client
Provenance ==
  \A l \in Learners : \A n \in DOMAIN output[l] : output[l][n].val \in submitted

\* a proposer holds value v for some instance
Proposed(v) ==
  \E p \in Proposers : \E i \in DOMAIN p_states[p] : p_states[p][i].c_val = v

\* learner l has emitted value v
Learned(l, v) == \E n \in DOMAIN output[l] : output[l][n].val = v

\* C5: once messages stop being lost, every value a proposer got from a client
\* is eventually emitted by the learner, also when the 1A of the only instance
\* was lost
Liveness == \A v \in Values : Proposed(v) ~> Learned(1, v)

\* C6: at every acceptor, for every instance, v-rnd <= rnd
AcceptedWithinPromise ==
  \A a \in Acceptors : \A i \in DOMAIN a_states[a] :
    a_states[a][i].v_rnd <= a_states[a][i].rnd

\* C7: at every acceptor the promised round of an instance never decreases,
\* and the state of an instance is never dropped
PromiseMonotone ==
  [][\A a \in Acceptors : \A i \in DOMAIN a_states[a] :
       /\ i \in DOMAIN a_states'[a]
       /\ a_states'[a][i].rnd >= a_states[a][i].rnd]_vars

\* C7 case: an acceptor holds a promise for a round above 0 and has accepted a
\* value in a lower round
PromiseRaised ==
  \E a \in Acceptors : \E i \in DOMAIN a_states[a] :
    a_states[a][i].rnd >= 1 /\ a_states[a][i].v_rnd \in 0..(a_states[a][i].rnd - 1)

\* C8: a 2A of round r is sent only when QUORUM promises for round r were
\* counted since c-rnd became r
FreshQuorum ==
  \A p \in Proposers : last2A[p] # <<>> => last2A[p].fresh >= QUORUM

\* C9: a proposer's count of promises of an instance is at most the number of
\* acceptors
PromisesBounded ==
  \A p \in Proposers : \A i \in DOMAIN p_states[p] :
    p_states[p][i].q <= Cardinality(Acceptors)

\* C10: the value of a 2A is k-val when some counted promise reported an
\* accepted value (k > -1), and the proposer's own c-val otherwise
ValueOfHighestPromise ==
  \A p \in Proposers : last2A[p] # <<>> =>
    In(last2A[p].payload, 3) =
      (IF last2A[p].k > -1 THEN last2A[p].k_val ELSE last2A[p].c_val)

\* the 2A datagrams sent to the acceptors
Sent2A == {m \in toAcceptors : In(m, 1) = 2}

\* C11: all the 2A sent for one instance and one round carry the same value
OneValuePerRound ==
  \A m1 \in Sent2A, m2 \in Sent2A :
    In(m1, 0) = In(m2, 0) /\ In(m1, 2) = In(m2, 2) => In(m1, 3) = In(m2, 3)

\* C12: an acceptor keeps its promise: once rnd of an instance is r, a step
\* changes v-rnd or v-val only to a round >= r, and every 2B and every 1B it
\* newly sends for the instance has a round >= r
KeepsPromise ==
  [][\A a \in Acceptors : \A i \in DOMAIN a_states[a] :
       /\ i \in DOMAIN a_states'[a]
       /\ (a_states'[a][i].v_rnd # a_states[a][i].v_rnd
           \/ a_states'[a][i].v_val # a_states[a][i].v_val)
            => a_states'[a][i].v_rnd >= a_states[a][i].rnd
       /\ \A m \in toLearners' \ toLearners :
            In(m, 0) = i => In(m, 2) >= a_states[a][i].rnd
       /\ \A m \in toProposers' \ toProposers :
            In(m, 0) = i /\ In(m, 1) = 1 => In(m, 2) >= a_states[a][i].rnd]_vars

\* C12 case: an acceptor that promised a round above 0 has accepted a value in
\* that round and sent its 2B
AcceptedAtPromise ==
  \E a \in Acceptors : \E i \in DOMAIN a_states[a] :
    /\ a_states[a][i].rnd >= 1
    /\ a_states[a][i].v_rnd = a_states[a][i].rnd
    /\ <<i, 2, a_states[a][i].v_rnd, a_states[a][i].v_val>> \in toLearners

\* C13: a step that gives an instance a new c-rnd (the handling of a restart)
\* leaves its q at 0 and has sent the 1A of the new round to the acceptors
RestartResets ==
  [][\A p \in Proposers : \A i \in DOMAIN p_states[p] :
       p_states'[p][i].c_rnd # p_states[p][i].c_rnd
         => /\ p_states'[p][i].q = 0
            /\ <<i, 1, p_states'[p][i].c_rnd>> \in toAcceptors']_vars

\* C14: at every proposer the c-rnd of an instance never decreases
RoundMonotone ==
  [][\A p \in Proposers : \A i \in DOMAIN p_states[p] :
       p_states'[p][i].c_rnd >= p_states[p][i].c_rnd]_vars

\* C15: the entry (v-rnd, v-val, count) a learner holds for an instance has the
\* v-val of a 2B sent to the learners for that instance with that v-rnd
EntryFromMessage ==
  \A l \in Learners : \A i \in DOMAIN l_states[l] :
    <<i, 2, l_states[l][i][1], l_states[l][i][2]>> \in toLearners

\* C16: a step of a learner that advances itl emits only instances whose entry
\* holds a count of at least QUORUM: the instance the 2B was for (its count
\* before the 2B is at least QUORUM - 1) and every following instance emitted
\* in the same loop
EmitAtQuorum ==
  [][\A l \in Learners :
       itl'[l] > itl[l] =>
         /\ itl[l] \in DOMAIN l_states[l]
         /\ l_states[l][itl[l]][3] >= QUORUM - 1
         /\ \A i \in (itl[l] + 1)..(itl'[l] - 1) :
              /\ i \in DOMAIN l_states[l]
              /\ l_states[l][i][3] >= QUORUM]_vars

\* C17: a scan of a proposer's timer sends a restart, with the round of the
\* scan, for every instance the proposer has state for that was not reported
\* as having reached 2A
RestartsEveryStalled ==
  [][\A p \in Proposers :
       t_round'[p] # t_round[p] =>
         \A i \in (DOMAIN p_states[p]) \ t_instances[p] :
           <<i, 3, t_round'[p]>> \in toProposers']_vars

\* C18: a scan of a proposer's timer sends a restart for instance m exactly
\* when 0 <= m < max(completed set) and m is not in the completed set; with an
\* empty set it sends none
RestartsExactlyHoles ==
  [][\A p \in Proposers :
       t_round'[p] # t_round[p] =>
         \A m \in -1..TimerMaxInstance :
           (<<m, 3, t_round'[p]>> \in toProposers')
             <=> /\ t_instances[p] # {}
                 /\ 0 <= m /\ m < Max(t_instances[p])
                 /\ m \notin t_instances[p]]_vars

\* C18 case: the timer has scanned with a hole below a completed instance and
\* with completed instances below another, and has sent a restart
HoleRestarted ==
  /\ {0, 2} \subseteq t_instances[1]
  /\ 1 \notin t_instances[1]
  /\ <<1, 3, t_round[1]>> \in toProposers

\* C19: an acceptor never accepts without a prepare: the state of an instance
\* is created with a promise and nothing accepted, a 2B is only sent for an
\* instance the acceptor had state for, and the step in which an acceptor
\* stops (a 2A for an instance without state) changes no state and sends no 2B
NoAcceptWithoutPrepare ==
  [][/\ \A a \in Acceptors :
          /\ \A i \in (DOMAIN a_states'[a]) \ (DOMAIN a_states[a]) :
               /\ a_states'[a][i].rnd >= 0
               /\ a_states'[a][i].v_rnd = -1
               /\ a_states'[a][i].v_val = -1
          /\ (a_alive[a] /\ ~a_alive'[a])
               => /\ a_states' = a_states
                  /\ toLearners' = toLearners
                  /\ sent2B' = sent2B
     /\ \A x \in sent2B' \ sent2B : In(x[2], 0) \in DOMAIN a_states[x[1]]]_vars

\* C19 case: an acceptor that had accepted a value for one instance has
\* stopped on a 2A for an instance it has no state for
StoppedOnStray2A ==
  \E a \in Acceptors :
    /\ ~a_alive[a]
    /\ \E i \in DOMAIN a_states[a] : a_states[a][i].v_rnd >= 0
    /\ \E m \in Env2A : In(m, 0) \notin DOMAIN a_states[a]

\* C20: a proposer keeps running whatever 1B it receives, also one for an
\* instance it has no state for
ProposerKeepsRunning == \A p \in Proposers : p_alive[p]
====
